---- MODULE Spec2Model ----
(***************************************************************************)
(* One run of televideditor.py: the module-level configuration check, the  *)
(* single pop from the job queue, the payload normalisation of __main__,   *)
(* process_video_job step by step (downloads, ffprobe calls, caption       *)
(* image, ffmpeg command, ffmpeg run, submission, except/finally) and the  *)
(* final stop_railway_deployment call.                                     *)
(*                                                                         *)
(* Python values are modelled as follows.                                  *)
(*   - A JSON value is a record [kind, keys, items, num]; a string is      *)
(*     modelled by the JSON document its characters serialise (items holds *)
(*     that document, or is empty when the text is no JSON document).      *)
(*   - An optional Python value (x or None) is a set with at most one      *)
(*     element: None is {}, the value v is {v}.                            *)
(*   - Durations are whole numbers of an arbitrary time unit.              *)
(*   - Files are named by their role: "bg" is downloads/bg_<job_id>.mp4,   *)
(*     "bgm" is downloads/bgm_<job_id>.mp3, "caption" is                   *)
(*     outputs/caption_<job_id>.png, "output" is outputs/output_<id>.mp4.  *)
(***************************************************************************)
EXTENDS Integers, Sequences, FiniteSets, TLC

VARIABLES
    pc,              \* position of the run in the program
    env,             \* names of the environment variables that are set
    fontExists,      \* whether Montserrat-ExtraBold.ttf is on disk
    queue,           \* the Redis list job_queue (rpop takes the last element)
    hasAudio,        \* fact of the background media: it carries an audio stream
    isSilent,        \* fact of the background media: its audio is silent throughout
    remove_errors,   \* cleanup_files: the files on which os.remove raised OSError
    remove_attempts, \* cleanup_files: the files os.remove was called on, in order
    stop_result,     \* what stop_railway_deployment did (optional)
    arg,             \* the arguments of a function applied on its own
    ret,             \* the result of a function applied on its own (optional)
    raw_job,         \* __main__: raw_job
    job_data,        \* process_video_job: job_data
    disk,            \* files of the job that exist on disk
    files_to_clean,  \* process_video_job: files_to_clean
    media_path,      \* process_video_job: media_path (optional)
    bgm_path,        \* process_video_job: bgm_path (optional)
    media_w,         \* process_video_job: media_w (optional)
    media_h,         \* process_video_job: media_h (optional)
    video_duration,  \* process_video_job: video_duration (optional)
    audio_duration,  \* process_video_job: audio_duration (optional)
    caption_height,  \* process_video_job: caption_height (optional)
    command,         \* process_video_job: the ffmpeg command (optional)
    outcome,         \* how the job was resolved: "NONE", "FAILED", "SUCCEEDED"
    events           \* history: the external operations performed, in order;
                     \* "x!" is a failure of operation x, "pop" the removal of
                     \* an element from the queue, "call" the call of
                     \* process_video_job

vars == <<pc, env, fontExists, queue, hasAudio, isSilent, remove_errors,
          remove_attempts, stop_result, arg, ret, raw_job,
          job_data, disk, files_to_clean, media_path, bgm_path, media_w, media_h,
          video_duration, audio_duration, caption_height, command, outcome, events>>

----------------------------------------------------------------------------
(* Bounds of the model *)

MaxQueue == 2
MaxWidth == 1
MaxHeight == 2
MaxDuration == 2
MaxTextHeight == 1
MaxRemoveErrors == 1
MaxScaleWidth == 31
MaxScaleHeight == 93
MaxTokens == 5

----------------------------------------------------------------------------
(* Program constants *)

COMP_WIDTH == 1080
COMP_HEIGHT == 1920
MEDIA_Y_OFFSET == 100
CAPTION_V_PADDING == 37
CAPTION_TOP_PADDING_LINES == 0
WRAP_WIDTH == 30

EnvVars == {"WORKER_PUBLIC_URL", "RAILWAY_API_TOKEN", "RAILWAY_SERVICE_ID",
            "UPSTASH_REDIS_REST_URL", "UPSTASH_REDIS_REST_TOKEN"}

Fields == {"job_id", "bg_link", "bgm_link", "quote"}

None == {}
Some(v) == {v}
Get(o) == CHOOSE v \in o : TRUE
\* an optional path as an element of a list: None is the element "None"
PathOf(o) == IF o = None THEN "None" ELSE Get(o)

----------------------------------------------------------------------------
(* JSON values *)

Null == [kind |-> "null", keys |-> {}, items |-> <<>>, num |-> 0]
Num(n) == [kind |-> "num", keys |-> {}, items |-> <<>>, num |-> n]
Dict(K) == [kind |-> "dict", keys |-> K, items |-> <<>>, num |-> 0]
List(s) == [kind |-> "list", keys |-> {}, items |-> s, num |-> 0]
\* the text json.dumps(v): a non-empty string that decodes to v
Str(v) == [kind |-> "str", keys |-> {}, items |-> <<v>>, num |-> 1]
\* a non-empty string that is no JSON document
BadStr == [kind |-> "str", keys |-> {}, items |-> <<>>, num |-> 1]
\* the empty string
EmptyStr == [kind |-> "str", keys |-> {}, items |-> <<>>, num |-> 0]

\* Python truthiness of a decoded JSON value (None, 0, "", [] and {} are false)
Truthy(v) ==
    CASE v.kind = "null" -> FALSE
      [] v.kind = "num" -> v.num # 0
      [] v.kind = "str" -> v.num # 0
      [] v.kind = "list" -> v.items # <<>>
      [] v.kind = "dict" -> v.keys # {}

\* json.loads(s) for a string s: the document, or a JSONDecodeError
JsonLoads(s) ==
    IF s.items = <<>>
    THEN [ok |-> FALSE, val |-> Null]
    ELSE [ok |-> TRUE, val |-> s.items[1]]

FullRecord == Dict(Fields)

\* the documents a queue element may serialise
Payloads ==
    {Dict(Fields \ {f}) : f \in Fields}
    \cup {FullRecord, Dict({}), Null, Num(0), Num(5),
          Str(FullRecord), Str(Num(5)), Str(List(<<FullRecord>>)), BadStr,
          List(<<>>), List(<<Str(FullRecord)>>), List(<<FullRecord>>),
          List(<<Str(FullRecord), Str(Dict(Fields \ {"job_id"}))>>),
          List(<<List(<<Str(FullRecord)>>)>>), List(<<Num(5)>>),
          List(<<Str(Num(5))>>), List(<<BadStr>>), List(<<Dict({})>>)}

\* the elements of the queue: strings
QueueTexts == {Str(p) : p \in Payloads} \cup {BadStr, EmptyStr}

\* the queues of the model: well-formed jobs, then any element at the pop end
RECURSIVE GoodJobs(_)
GoodJobs(n) == IF n = 0 THEN <<>> ELSE Append(GoodJobs(n - 1), Str(FullRecord))

Queues ==
    {<<>>} \cup {Append(GoodJobs(n), t) : n \in 0..(MaxQueue - 1), t \in QueueTexts}

----------------------------------------------------------------------------
(* Outcomes of the external collaborators *)

\* requests.get(..., stream=True) then writing the chunks: the download
\* succeeds, fails before the file is opened, or fails after it was opened
DownloadOutcomes == {"ok", "refused", "midstream"}

\* ffprobe-reported values: whole numbers from 0 up to the bound; int() of
\* line 132 also takes a negative width
Widths == (0 - 1)..MaxWidth
Heights == 0..MaxHeight
Durations == 0..MaxDuration

\* rect_height of create_caption_image: text height plus padding on both sides
CaptionHeights == {t + 2 * CAPTION_V_PADDING : t \in 0..MaxTextHeight}

\* subprocess.run(ffmpeg): exit status 0, a non-zero exit status, TimeoutExpired
\* after 300 s, or the executable could not be started
FfmpegOutcomes == {"exit0", "nonzero", "timeout", "nostart"}

----------------------------------------------------------------------------
(* process_video_job: the pure parts *)

\* all([...]) over optional numbers: None and 0 are false
AllTruthy(os) == \A o \in os : o # None /\ o # {0}

Min(a, b) == IF a <= b THEN a ELSE b
Max(a, b) == IF a >= b THEN a ELSE b

FinalDurationLonger(v, a) == Max(v, a)

\* line 201: final_duration = min(video_duration, audio_duration)
FinalDuration(v, a) == Min(v, a)

DownloadsFailedBoth(m, b) == m = None /\ b = None

\* line 188: if not media_path or not bgm_path
DownloadsFailed(m, b) == m = None \/ b = None

EncodeFailedOnTimeoutOnly(o) == o \in {"timeout", "nostart"}

\* lines 244-247: subprocess.run raises (timeout, no executable) or the
\* return code is not 0
EncodeFailed(o) == o # "exit0"

Abs(n) == IF n < 0 THEN 0 - n ELSE n

RECURSIVE Pow2(_)
Pow2(n) == IF n <= 0 THEN 1 ELSE 2 * Pow2(n - 1)

\* 2^n % m, without forming 2^n
RECURSIVE Pow2Mod(_, _)
Pow2Mod(n, m) ==
    IF n <= 0 THEN 1 % m
    ELSE IF n % 2 = 1 THEN (2 * Pow2Mod(n - 1, m)) % m
    ELSE (Pow2Mod(n \div 2, m) * Pow2Mod(n \div 2, m)) % m

\* (a * 2^n) % m, without forming a * 2^n
MulPow2Mod(a, n, m) == ((a % m) * Pow2Mod(n, m)) % m

\* the exponent of the double nearest to a / w (a, w > 0): the e with
\* 2^e <= a / w < 2^(e + 1)
RECURSIVE UpExp(_, _, _)
UpExp(a, w, e) == IF w * Pow2(e + 1) <= a THEN UpExp(a, w, e + 1) ELSE e
RECURSIVE DownExp(_, _, _)
DownExp(a, w, t) == IF a * Pow2(t) < w THEN DownExp(a, w, t + 1) ELSE 0 - t
QuotientExp(a, w) == IF a >= w THEN UpExp(a, w, 0) ELSE DownExp(a, w, 1)

\* the exponent of the doubles just below the whole number k > 0: the largest
\* e with 2^e < k (-1 for k = 1)
RECURSIVE ExpBelow(_)
ExpBelow(k) == IF k <= 1 THEN 0 - 1 ELSE 1 + ExpBelow((k + 1) \div 2)

\* line 212: scale_ratio = COMP_WIDTH / media_w for w > 0, a double: the
\* quotient rounded to a 53-bit mantissa, ties to even. With
\* N = COMP_WIDTH * 2^(52 - exp), scale_ratio = mant * 2^(exp - 52) where mant
\* is N / w rounded; the mantissa does not fit the integers of the model, so
\* the double is given by exp and by err = N - mant * w, the rounding error
\* in units of 2^(exp - 52) / w (err > 0: scale_ratio is below the quotient)
ScaleRatio(w) ==
    LET e == QuotientExp(COMP_WIDTH, w)
        r == MulPow2Mod(COMP_WIDTH, 52 - e, w)
        r2 == MulPow2Mod(COMP_WIDTH, 52 - e, 2 * w)
        floorOdd == r2 # r
    IN  [exp |-> e,
         err |-> IF 2 * r < w THEN r
                 ELSE IF 2 * r > w THEN r - w
                 ELSE IF floorOdd THEN r - w ELSE r]

\* line 213: int(media_h * scale_ratio) for w, h > 0. The product is rounded
\* to a double again and int() truncates it. When w does not divide
\* h * COMP_WIDTH the two roundings are too small to reach a whole number and
\* the result is the floor of the quotient. When it does, the quotient is
\* the whole number k, the exact product is k - h * err * 2^(exp - 52) / w,
\* and it is rounded to the double below k (so that int() gives k - 1) when
\* it lies more than half a step 2^(ExpBelow(k) - 53) under k
ScaledPositive(w, h) ==
    IF (h * COMP_WIDTH) % w # 0 THEN (h * COMP_WIDTH) \div w
    ELSE LET k == (h * COMP_WIDTH) \div w
             ratio == ScaleRatio(w)
             d == ratio.exp - ExpBelow(k) + 1
         IN  IF ratio.err <= 0 THEN k
             ELSE IF h * ratio.err * Pow2(d) > w * Pow2(0 - d) THEN k - 1
             ELSE k

\* lines 212-213: int(media_h * (COMP_WIDTH / media_w)) for w # 0, computed in
\* doubles as the code does; int() truncates toward zero, and the sign of a
\* double is apart from its magnitude
ScaledMediaH(w, h) ==
    IF h = 0 THEN 0
    ELSE IF (w < 0) = (h < 0) THEN ScaledPositive(Abs(w), Abs(h))
    ELSE 0 - ScaledPositive(Abs(w), Abs(h))

\* line 214, as twice its value (the code computes it in floating point,
\* halves included): COMP_HEIGHT / 2 - scaled_media_h / 2 + MEDIA_Y_OFFSET
MediaYPos2(scaled) == COMP_HEIGHT - scaled + 2 * MEDIA_Y_OFFSET

CaptionYPos2NoOverlap(my2, ch) == my2 - 2 * ch

\* line 215, as twice its value: media_y_pos - caption_height + 1
CaptionYPos2(my2, ch) == my2 - 2 * ch + 2

\* a stream reference of the filter graph: "[k:v]" / "[k:a]" of input k, or
\* a label produced by a graph part
InRef(k, t) == [input |-> k, typ |-> t, label |-> ""]
LabelRef(l) == [input |-> -1, typ |-> "", label |-> l]

\* lines 217-223: the inputs in the order ffmpeg opens them (index 0 first)
CommandInputs == <<"color", "bg", "caption", "bgm">>

FilterPartsSilenceAware(my2, cy2) ==
    << [ins |-> <<InRef(1, "v")>>, op |-> "scale", at2 |-> 0, out |-> "scaled_media"],
       [ins |-> <<InRef(0, "v"), LabelRef("scaled_media")>>, op |-> "overlay",
        at2 |-> my2, out |-> "bg_with_media"],
       [ins |-> <<LabelRef("bg_with_media"), InRef(2, "v")>>, op |-> "overlay",
        at2 |-> cy2, out |-> "final_v"],
       [ins |-> <<InRef(IF ~hasAudio \/ isSilent THEN 3 ELSE 1, "a")>>,
        op |-> "asetpts", at2 |-> 0, out |-> "final_a"] >>

FilterPartsInputsOffByOne(my2, cy2) ==
    << [ins |-> <<InRef(1, "v")>>, op |-> "scale", at2 |-> 0, out |-> "scaled_media"],
       [ins |-> <<InRef(0, "v"), LabelRef("scaled_media")>>, op |-> "overlay",
        at2 |-> my2, out |-> "bg_with_media"],
       [ins |-> <<LabelRef("bg_with_media"), InRef(3, "v")>>, op |-> "overlay",
        at2 |-> cy2, out |-> "final_v"],
       [ins |-> <<InRef(4, "a")>>, op |-> "asetpts", at2 |-> 0, out |-> "final_a"] >>

FilterPartsOriginalUnlessSilent(my2, cy2) ==
    << [ins |-> <<InRef(1, "v")>>, op |-> "scale", at2 |-> 0, out |-> "scaled_media"],
       [ins |-> <<InRef(0, "v"), LabelRef("scaled_media")>>, op |-> "overlay",
        at2 |-> my2, out |-> "bg_with_media"],
       [ins |-> <<LabelRef("bg_with_media"), InRef(2, "v")>>, op |-> "overlay",
        at2 |-> cy2, out |-> "final_v"],
       [ins |-> <<InRef(IF isSilent THEN 3 ELSE 1, "a")>>,
        op |-> "asetpts", at2 |-> 0, out |-> "final_a"] >>

\* lines 225-230: filter_parts
FilterParts(my2, cy2) ==
    << [ins |-> <<InRef(1, "v")>>, op |-> "scale", at2 |-> 0, out |-> "scaled_media"],
       [ins |-> <<InRef(0, "v"), LabelRef("scaled_media")>>, op |-> "overlay",
        at2 |-> my2, out |-> "bg_with_media"],
       [ins |-> <<LabelRef("bg_with_media"), InRef(2, "v")>>, op |-> "overlay",
        at2 |-> cy2, out |-> "final_v"],
       [ins |-> <<InRef(3, "a")>>, op |-> "asetpts", at2 |-> 0, out |-> "final_a"] >>

\* lines 211-242: the ffmpeg command
BuildCommand(w, h, vd, ad, ch) ==
    LET final_duration == FinalDuration(vd, ad)
        scaled_media_h == ScaledMediaH(w, h)
        my2 == MediaYPos2(scaled_media_h)
        cy2 == CaptionYPos2(my2, ch)
    IN  [inputs |-> CommandInputs,
         color_d |-> final_duration,
         filter_parts |-> FilterParts(my2, cy2),
         maps |-> <<"final_v", "final_a">>,
         t |-> final_duration,
         output |-> "output"]

\* which input feeds the final audio stream of a command: the fallback audio
\* (SUBSTITUTE) or the background media's own audio (ORIGINAL)
AudioSource(cmd) ==
    LET part == CHOOSE p \in {cmd.filter_parts[i] : i \in DOMAIN cmd.filter_parts} :
                    p.out = "final_a"
        src == cmd.inputs[part.ins[1].input + 1]
    IN  IF src = "bgm" THEN "SUBSTITUTE"
        ELSE IF src = "bg" THEN "ORIGINAL" ELSE "OTHER"

----------------------------------------------------------------------------
(* __main__: the pure parts *)

\* lines 272-295: what __main__ does with a truthy raw_job. "call": it calls
\* process_video_job(job); "unparseable": the warning of line 295;
\* "malformed": an exception caught at line 297
Normalise(raw) ==
    LET job == IF raw.kind = "list" THEN raw.items[1] ELSE raw
    IN  IF job.kind = "str"
        THEN LET r == JsonLoads(job)
             IN  IF ~r.ok THEN [tag |-> "malformed", job |-> Null]
                 ELSE IF Truthy(r.val) THEN [tag |-> "call", job |-> r.val]
                 ELSE [tag |-> "unparseable", job |-> Null]
        ELSE IF job.kind = "dict"
        THEN IF Truthy(job) THEN [tag |-> "call", job |-> job]
             ELSE [tag |-> "unparseable", job |-> Null]
        ELSE [tag |-> "malformed", job |-> Null]

\* lines 193-195: what the probe step reports of the media: the values the
\* three ffprobe calls return, and nothing else
MediaProperties ==
    [width |-> media_w, height |-> media_h, duration |-> video_duration]

----------------------------------------------------------------------------
(* create_caption_image: the wrapping of the text *)

\* A text is the sequence of its tokens: line breaks, and the chunks textwrap
\* splits a line into, which are runs of whitespace (ws) and words or parts
\* of words, each of len characters. hy is the place of the one hyphen
\* inside a word that was not split at it (as in "2024-11"), counted from 1,
\* or 0. idx is the place of a chunk in its line
Chunk(ws, len, hy) == [nl |-> FALSE, ws |-> ws, len |-> len, hy |-> hy, idx |-> 0]

NewLine == [nl |-> TRUE, ws |-> TRUE, len |-> 1, hy |-> 0, idx |-> 0]

Tokens ==
    {NewLine,
     Chunk(FALSE, 1, 0), Chunk(FALSE, 30, 0), Chunk(FALSE, 31, 0), Chunk(FALSE, 61, 40),
     Chunk(TRUE, 1, 0), Chunk(TRUE, 31, 0)}

\* the texts of the model; two runs of whitespace are never adjacent
IsText(t) ==
    \A i \in 1 .. (Len(t) - 1) :
        ~(t[i].ws /\ ~t[i].nl /\ t[i + 1].ws /\ ~t[i + 1].nl)

\* line 164: padded_text.split('\n'), from token i on; lines holds the lines
\* found so far, the last of them the line being read
RECURSIVE SplitFrom(_, _, _)
SplitFrom(text, i, lines) ==
    IF i > Len(text) THEN lines
    ELSE IF text[i].nl THEN SplitFrom(text, i + 1, Append(lines, <<>>))
    ELSE SplitFrom(text, i + 1, [lines EXCEPT ![Len(lines)] = Append(@, text[i])])

Split(text) == SplitFrom(text, 1, << <<>> >>)

\* the number of characters of a sequence of chunks
RECURSIVE LineLen(_)
LineLen(cs) == IF cs = <<>> THEN 0 ELSE cs[1].len + LineLen(Tail(cs))

\* textwrap._wrap_chunks, the inner loop: chunks are moved to the current
\* line while they fit the width
RECURSIVE Fill(_, _)
Fill(cur, rest) ==
    IF rest # <<>> /\ LineLen(cur) + rest[1].len <= WRAP_WIDTH
    THEN Fill(Append(cur, rest[1]), Tail(rest))
    ELSE [cur |-> cur, rest |-> rest]

\* textwrap._handle_long_word with break_long_words: the first chunk of rest
\* is longer than the width; the part of it that fits the space left goes to
\* the current line, up to a hyphen inside that space if there is one
HandleLongWord(f) ==
    LET chunk == f.rest[1]
        space_left == WRAP_WIDTH - LineLen(f.cur)
        end == IF 2 <= chunk.hy /\ chunk.hy <= space_left THEN chunk.hy ELSE space_left
    IN  [cur |-> Append(f.cur, [chunk EXCEPT !.len = end,
                                             !.hy = IF chunk.hy <= end THEN chunk.hy ELSE 0]),
         rest |-> <<[chunk EXCEPT !.len = chunk.len - end,
                                  !.hy = IF chunk.hy > end THEN chunk.hy - end ELSE 0]>>
                  \o Tail(f.rest)]

\* textwrap._wrap_chunks with drop_whitespace: whitespace at the start of a
\* line is dropped except on the first line, whitespace (or an empty part)
\* at the end of every line, and a line left empty is not appended
RECURSIVE WrapChunks(_, _)
WrapChunks(chunks, lines) ==
    IF chunks = <<>> THEN lines
    ELSE LET c0 == IF chunks[1].ws /\ lines # <<>> THEN Tail(chunks) ELSE chunks
             f == Fill(<<>>, c0)
             g == IF f.rest # <<>> /\ f.rest[1].len > WRAP_WIDTH
                  THEN HandleLongWord(f) ELSE f
             n == Len(g.cur)
             cur_line == IF n > 0 /\ (g.cur[n].ws \/ g.cur[n].len = 0)
                         THEN SubSeq(g.cur, 1, n - 1) ELSE g.cur
         IN  WrapChunks(g.rest, IF cur_line # <<>> THEN Append(lines, cur_line) ELSE lines)

\* textwrap.wrap(line, width=30, break_long_words=True): the output lines,
\* each the sequence of the chunks and parts of chunks it is made of
Wrap(line) == WrapChunks([j \in DOMAIN line |-> [line[j] EXCEPT !.idx = j]], <<>>)

OrNothing(ls) == ls

\* line 164: ... or ['']: an empty list of lines gives one empty line
OrBlank(ls) == IF ls = <<>> THEN << <<>> >> ELSE ls

\* line 160: ("\n" * CAPTION_TOP_PADDING_LINES) + text, as lines
PaddedText(text) ==
    IF CAPTION_TOP_PADDING_LINES = 0 THEN text
    ELSE [i \in 1..CAPTION_TOP_PADDING_LINES |-> NewLine] \o text

\* line 164: final_lines, from line i of the padded text on; src is the
\* number of the line of the padded text an output line comes from
RECURSIVE FinalLinesFrom(_, _)
FinalLinesFrom(lines, i) ==
    IF i > Len(lines) THEN <<>>
    ELSE LET items == OrBlank(Wrap(lines[i]))
         IN  [k \in DOMAIN items |-> [src |-> i, line |-> items[k]]]
             \o FinalLinesFrom(lines, i + 1)

FinalLines(text) == FinalLinesFrom(Split(PaddedText(text)), 1)

----------------------------------------------------------------------------
(* stop_railway_deployment *)

\* requests.post and raise_for_status: the request succeeds, the connection
\* fails or times out, or the status is an error status
PostOutcomes == {"ok", "neterr", "status_err"}

\* the body of the answer to the deployment query. json: it is a JSON
\* document; top: the kind of the document; chain: the values found under
\* 'data', 'service', 'deployments' in turn, each a dict or null, the chain
\* ending where the key is absent; edges: the value under 'edges' ("absent",
\* "null", "empty" or "list"); first: the first element of a non-empty list
\* ("ok": it holds node.id; "no_node", "node_null", "no_id", "not_dict")
Body(j, t, c, e, f) == [json |-> j, top |-> t, chain |-> c, edges |-> e, first |-> f]

QueryBodies ==
    {Body(FALSE, "none", <<>>, "absent", "none"),
     Body(TRUE, "list", <<>>, "absent", "none"),
     Body(TRUE, "dict", <<>>, "absent", "none"),
     Body(TRUE, "dict", <<"null">>, "absent", "none"),
     Body(TRUE, "dict", <<"dict">>, "absent", "none"),
     Body(TRUE, "dict", <<"dict", "null">>, "absent", "none"),
     Body(TRUE, "dict", <<"dict", "dict">>, "absent", "none"),
     Body(TRUE, "dict", <<"dict", "dict", "null">>, "absent", "none")}
    \cup {Body(TRUE, "dict", <<"dict", "dict", "dict">>, e, "none") :
             e \in {"absent", "null", "empty"}}
    \cup {Body(TRUE, "dict", <<"dict", "dict", "dict">>, "list", f) :
             f \in {"ok", "no_node", "node_null", "no_id", "not_dict"}}

\* the answers to the deployment query
QueryResponses ==
    {[http |-> "neterr", body |-> Body(FALSE, "none", <<>>, "absent", "none")],
     [http |-> "status_err", body |-> Body(FALSE, "none", <<>>, "absent", "none")]}
    \cup {[http |-> "ok", body |-> b] : b \in QueryBodies}

\* line 72: response.json().get('data', {}).get('service', {})
\* .get('deployments', {}).get('edges', []), from key i of the chain on: the
\* edges found ("empty" for the default and for an empty list, "null",
\* "list"), or "raise" when .get is called on a value that is no dict
RECURSIVE EdgesFrom(_, _)
EdgesFrom(b, i) ==
    IF i > 3
    THEN IF b.edges = "absent" THEN "empty" ELSE b.edges
    ELSE IF i > Len(b.chain) THEN "empty"
    ELSE IF b.chain[i] = "null" THEN "raise"
    ELSE EdgesFrom(b, i + 1)

\* lines 70-76: the outcome of the query: "id" (a deployment id was read),
\* "none" (no edges: the warning of line 74), or the exception raised
QueryOutcome(q) ==
    IF q.http = "neterr" THEN "RequestException"
    ELSE IF q.http = "status_err" THEN "HTTPError"
    ELSE IF ~q.body.json THEN "JSONDecodeError"
    ELSE IF q.body.top # "dict" THEN "AttributeError"
    ELSE LET e == EdgesFrom(q.body, 1)
         IN  IF e = "raise" THEN "AttributeError"
             ELSE IF e \in {"empty", "null"} THEN "none"
             ELSE IF q.body.first = "ok" THEN "id"
             ELSE IF q.body.first \in {"no_node", "no_id"} THEN "KeyError"
             ELSE "TypeError"

CaughtIfRequestError(exc) == exc \in {"RequestException", "HTTPError"}

\* lines 77 and 85: except Exception catches every exception of the try body
Caught(exc) == TRUE

\* line 64: not api_token or not service_id
CredentialsMissing(e) == "RAILWAY_API_TOKEN" \notin e \/ "RAILWAY_SERVICE_ID" \notin e

\* lines 61-86: stop_railway_deployment() with the environment e, the answer
\* q to the query and the outcome m of the stop request. queried: the query
\* was posted; sent: the stop command was posted; raised: an exception left
\* the function
StopRailwayDeployment(e, q, m) ==
    IF CredentialsMissing(e)
    THEN [queried |-> FALSE, sent |-> FALSE, raised |-> FALSE]
    ELSE LET o == QueryOutcome(q)
         IN  IF o = "none"
             THEN [queried |-> TRUE, sent |-> FALSE, raised |-> FALSE]
             ELSE IF o # "id"
             THEN [queried |-> TRUE, sent |-> FALSE, raised |-> ~Caught(o)]
             ELSE [queried |-> TRUE, sent |-> TRUE,
                   raised |-> IF m = "ok" THEN FALSE
                              ELSE ~Caught(IF m = "neterr" THEN "RequestException"
                                           ELSE "HTTPError")]

----------------------------------------------------------------------------
(* The run *)

Init ==
    /\ pc = "import"
    /\ env \in {EnvVars} \cup {EnvVars \ {v} : v \in EnvVars}
    /\ fontExists \in BOOLEAN
    /\ queue \in Queues
    /\ hasAudio = FALSE
    /\ isSilent = TRUE
    /\ remove_errors = {}
    /\ remove_attempts = <<>>
    /\ stop_result = None
    /\ arg = <<>>
    /\ ret = None
    /\ raw_job = Null
    /\ job_data = Null
    /\ disk = {}
    /\ files_to_clean = <<>>
    /\ media_path = None
    /\ bgm_path = None
    /\ media_w = None
    /\ media_h = None
    /\ video_duration = None
    /\ audio_duration = None
    /\ caption_height = None
    /\ command = None
    /\ outcome = "NONE"
    /\ events = <<>>

\* the variables of process_video_job
jobVars == <<job_data, files_to_clean, media_path, bgm_path, media_w, media_h,
             video_duration, audio_duration, caption_height, command>>

\* the facts of the background media
mediaVars == <<hasAudio, isSilent>>

\* the record of what cleanup_files did
cleanupVars == <<remove_errors, remove_attempts>>

\* the variables of the functions applied on their own
fnVars == <<arg, ret>>

\* lines 18-25: the module-level check of the environment variables; the
\* ValueError is not caught
ModuleInit ==
    /\ pc = "import"
    /\ pc' = IF env = EnvVars THEN "main" ELSE "crashed"
    /\ UNCHANGED <<env, fontExists, queue, mediaVars, cleanupVars, stop_result, fnVars, raw_job, jobVars,
                   disk, outcome, events>>

\* lines 263-264: create_directories
CreateDirectories ==
    /\ pc = "main"
    /\ pc' = "fetch"
    /\ UNCHANGED <<env, fontExists, queue, mediaVars, cleanupVars, stop_result, fnVars, raw_job, jobVars,
                   disk, outcome, events>>

\* lines 88-98 and 267: raw_job = fetch_job_from_redis(). The request fails
\* (None is returned), or the last element of the list is popped and decoded
FetchJob ==
    /\ pc = "fetch"
    /\ \E http \in {"ok", "error"} :
          IF http = "error" \/ queue = <<>>
          THEN /\ raw_job' = Null
               /\ queue' = queue
               /\ events' = Append(events, IF http = "error" THEN "pop!" ELSE "pop_empty")
          ELSE LET result == queue[Len(queue)]
                   r == JsonLoads(result)
               IN  /\ queue' = SubSeq(queue, 1, Len(queue) - 1)
                   /\ raw_job' = IF Truthy(result) /\ r.ok THEN r.val ELSE Null
                   /\ events' = Append(events, "pop")
    /\ pc' = "check_raw"
    /\ UNCHANGED <<env, fontExists, mediaVars, cleanupVars, stop_result, fnVars, jobVars,
                   disk, outcome>>

\* lines 270-301: the decoding of raw_job, up to the call of process_video_job
NormaliseJob ==
    /\ pc = "check_raw"
    /\ IF ~Truthy(raw_job)
       THEN /\ pc' = "stop"
            /\ UNCHANGED <<job_data, events>>
       ELSE LET n == Normalise(raw_job)
            IN  IF n.tag = "call"
                THEN /\ pc' = "pvj_enter"
                     /\ job_data' = n.job
                     /\ events' = Append(events, "call")
                ELSE /\ pc' = "stop"
                     /\ events' = Append(events, n.tag)
                     /\ UNCHANGED job_data
    /\ UNCHANGED <<env, fontExists, queue, mediaVars, cleanupVars, stop_result, fnVars, raw_job,
                   files_to_clean, media_path, bgm_path, media_w, media_h,
                   video_duration, audio_duration, caption_height, command, disk,
                   outcome>>

\* lines 180-182: job_id = job_data['job_id'], before the try statement. On a
\* value that is no dict the subscript raises TypeError, which line 297
\* catches; on a dict without the key it raises KeyError, which nothing catches
PvjEnter ==
    /\ pc = "pvj_enter"
    /\ IF job_data.kind # "dict"
       THEN /\ pc' = "stop"
            /\ events' = Append(events, "malformed")
       ELSE IF "job_id" \notin job_data.keys
       THEN /\ pc' = "crashed"
            /\ events' = Append(events, "job_id!")
       ELSE /\ pc' = "dl_bg"
            /\ events' = events
    /\ files_to_clean' = <<>>
    /\ UNCHANGED <<env, fontExists, queue, mediaVars, cleanupVars, stop_result, fnVars, raw_job, job_data,
                   media_path, bgm_path, media_w, media_h, video_duration,
                   audio_duration, caption_height, command, disk, outcome>>

\* lines 113-124 and 186: media_path = download_file_from_url(job_data['bg_link'], ...)
DownloadBg ==
    /\ pc = "dl_bg"
    /\ IF "bg_link" \notin job_data.keys
       THEN /\ pc' = "except"
            /\ events' = Append(events, "bg_link!")
            /\ UNCHANGED <<media_path, disk, mediaVars>>
       ELSE \E o \in DownloadOutcomes, ha \in BOOLEAN, si \in BOOLEAN :
               /\ pc' = "dl_bgm"
               /\ media_path' = IF o = "ok" THEN Some("bg") ELSE None
               /\ disk' = IF o = "refused" THEN disk ELSE disk \cup {"bg"}
               /\ hasAudio' = IF o = "ok" THEN ha ELSE hasAudio
               /\ isSilent' = IF o = "ok" THEN si ELSE isSilent
               /\ events' = Append(events, IF o = "ok" THEN "download_bg" ELSE "download_bg!")
    /\ UNCHANGED <<env, fontExists, queue, cleanupVars, stop_result, fnVars, raw_job, job_data,
                   files_to_clean, bgm_path, media_w, media_h, video_duration,
                   audio_duration, caption_height, command, outcome>>

\* lines 113-124 and 187: bgm_path = download_file_from_url(job_data['bgm_link'], ...)
DownloadBgm ==
    /\ pc = "dl_bgm"
    /\ IF "bgm_link" \notin job_data.keys
       THEN /\ pc' = "except"
            /\ events' = Append(events, "bgm_link!")
            /\ UNCHANGED <<bgm_path, disk>>
       ELSE \E o \in DownloadOutcomes :
               /\ pc' = "dl_check"
               /\ bgm_path' = IF o = "ok" THEN Some("bgm") ELSE None
               /\ disk' = IF o = "refused" THEN disk ELSE disk \cup {"bgm"}
               /\ events' = Append(events, IF o = "ok" THEN "download_bgm" ELSE "download_bgm!")
    /\ UNCHANGED <<env, fontExists, queue, mediaVars, cleanupVars, stop_result, fnVars, raw_job, job_data,
                   files_to_clean, media_path, media_w, media_h, video_duration,
                   audio_duration, caption_height, command, outcome>>

\* lines 188-189: the ValueError on a failed download, else the two paths are
\* added to files_to_clean
CheckDownloads ==
    /\ pc = "dl_check"
    /\ IF DownloadsFailed(media_path, bgm_path)
       THEN /\ pc' = "except"
            /\ UNCHANGED files_to_clean
       ELSE /\ pc' = "probe_dims"
            /\ files_to_clean' = files_to_clean \o <<PathOf(media_path), PathOf(bgm_path)>>
    /\ UNCHANGED <<env, fontExists, queue, mediaVars, cleanupVars, stop_result, fnVars, raw_job, job_data,
                   media_path, bgm_path, media_w, media_h, video_duration,
                   audio_duration, caption_height, command, disk, outcome, events>>

\* lines 126-135 and 193: media_w, media_h = get_video_dimensions(media_path);
\* any failure of ffprobe or of the parsing gives (None, None)
ProbeDimensions ==
    /\ pc = "probe_dims"
    /\ \/ /\ media_w' = None
          /\ media_h' = None
          /\ events' = Append(events, "probe_dims!")
       \/ \E w \in Widths, h \in Heights :
             /\ media_w' = Some(w)
             /\ media_h' = Some(h)
             /\ events' = Append(events, "probe_dims")
    /\ pc' = "probe_vdur"
    /\ UNCHANGED <<env, fontExists, queue, mediaVars, cleanupVars, stop_result, fnVars, raw_job, job_data,
                   files_to_clean, media_path, bgm_path, video_duration,
                   audio_duration, caption_height, command, disk, outcome>>

\* lines 138-146 and 194: video_duration = get_video_duration(media_path)
ProbeVideoDuration ==
    /\ pc = "probe_vdur"
    /\ \/ /\ video_duration' = None
          /\ events' = Append(events, "probe_vdur!")
       \/ \E d \in Durations :
             /\ video_duration' = Some(d)
             /\ events' = Append(events, "probe_vdur")
    /\ pc' = "probe_adur"
    /\ UNCHANGED <<env, fontExists, queue, mediaVars, cleanupVars, stop_result, fnVars, raw_job, job_data,
                   files_to_clean, media_path, bgm_path, media_w, media_h,
                   audio_duration, caption_height, command, disk, outcome>>

\* lines 149-157 and 195: audio_duration = get_audio_duration(bgm_path)
ProbeAudioDuration ==
    /\ pc = "probe_adur"
    /\ \/ /\ audio_duration' = None
          /\ events' = Append(events, "probe_adur!")
       \/ \E d \in Durations :
             /\ audio_duration' = Some(d)
             /\ events' = Append(events, "probe_adur")
    /\ pc' = "check_props"
    /\ UNCHANGED <<env, fontExists, queue, mediaVars, cleanupVars, stop_result, fnVars, raw_job, job_data,
                   files_to_clean, media_path, bgm_path, media_w, media_h,
                   video_duration, caption_height, command, disk, outcome>>

\* lines 197-198: the ValueError when a property is None or 0
CheckProps ==
    /\ pc = "check_props"
    /\ IF AllTruthy({media_w, media_h, video_duration, audio_duration})
       THEN /\ pc' = "caption"
            /\ events' = events
       ELSE /\ pc' = "except"
            /\ events' = Append(events, "props!")
    /\ UNCHANGED <<env, fontExists, queue, mediaVars, cleanupVars, stop_result, fnVars, raw_job, jobVars,
                   disk, outcome>>

\* lines 159-177 and 207-208: create_caption_image(job_data['quote'], job_id).
\* The font file is looked up first; the image file is written last
CreateCaption ==
    /\ pc = "caption"
    /\ IF "quote" \notin job_data.keys
       THEN /\ pc' = "except"
            /\ events' = Append(events, "quote!")
            /\ UNCHANGED <<caption_height, files_to_clean, disk>>
       ELSE IF ~fontExists
       THEN /\ pc' = "except"
            /\ events' = Append(events, "font!")
            /\ UNCHANGED <<caption_height, files_to_clean, disk>>
       ELSE \/ /\ pc' = "except"
               /\ events' = Append(events, "caption!")
               /\ UNCHANGED <<caption_height, files_to_clean, disk>>
            \/ \E ch \in CaptionHeights :
                  /\ pc' = "plan"
                  /\ caption_height' = Some(ch)
                  /\ disk' = disk \cup {"caption"}
                  /\ files_to_clean' = Append(files_to_clean, "caption")
                  /\ events' = Append(events, "caption")
    /\ UNCHANGED <<env, fontExists, queue, mediaVars, cleanupVars, stop_result, fnVars, raw_job, job_data,
                   media_path, bgm_path, media_w, media_h, video_duration,
                   audio_duration, command, outcome>>

\* lines 211-242: the geometry and the ffmpeg command
Plan ==
    /\ pc = "plan"
    /\ IF Get(media_w) = 0
       THEN \* line 212: ZeroDivisionError, caught at line 253
            /\ command' = command
            /\ events' = Append(events, "plan!")
            /\ pc' = "except"
       ELSE /\ command' = Some(BuildCommand(Get(media_w), Get(media_h),
                                            Get(video_duration), Get(audio_duration),
                                            Get(caption_height)))
            /\ events' = Append(events, "plan")
            /\ pc' = "ffmpeg"
    /\ UNCHANGED <<env, fontExists, queue, mediaVars, cleanupVars, stop_result, fnVars, raw_job, job_data,
                   files_to_clean, media_path, bgm_path, media_w, media_h,
                   video_duration, audio_duration, caption_height, disk, outcome>>

\* lines 244-249: subprocess.run(command, timeout=300). A run that exits with
\* status 0 has written the output file; a run that fails or is killed at the
\* timeout may have written a part of it (ffmpeg -y opens it before encoding)
RunFfmpeg ==
    /\ pc = "ffmpeg"
    /\ \E o \in FfmpegOutcomes, wrote \in BOOLEAN :
          /\ o = "exit0" => wrote
          /\ o = "nostart" => ~wrote
          /\ disk' = IF wrote THEN disk \cup {Get(command).output} ELSE disk
          /\ events' = Append(events, IF o = "exit0" THEN "ffmpeg" ELSE "ffmpeg!")
          /\ pc' = IF EncodeFailed(o) THEN "except" ELSE "deliver"
    /\ UNCHANGED <<env, fontExists, queue, mediaVars, cleanupVars, stop_result, fnVars, raw_job, jobVars,
                   outcome>>

\* lines 100-110 and 250-251: the output path is added to files_to_clean and
\* submit_result_to_worker is called; it catches every exception of the upload
Deliver ==
    /\ pc = "deliver"
    /\ files_to_clean' = Append(files_to_clean, Get(command).output)
    /\ \E o \in {"ok", "error"} :
          events' = Append(events, IF o = "ok" THEN "submit" ELSE "submit!")
    /\ pc' = "finally"
    /\ UNCHANGED <<env, fontExists, queue, mediaVars, cleanupVars, stop_result, fnVars, raw_job, job_data,
                   media_path, bgm_path, media_w, media_h, video_duration,
                   audio_duration, caption_height, command, disk, outcome>>

\* lines 253-255: the except clause of process_video_job
Except ==
    /\ pc = "except"
    /\ outcome' = "FAILED"
    /\ events' = Append(events, "except")
    /\ pc' = "finally"
    /\ UNCHANGED <<env, fontExists, queue, mediaVars, cleanupVars, stop_result, fnVars, raw_job, jobVars,
                   disk>>

\* the elements of a sequence
Range(s) == {s[i] : i \in DOMAIN s}

AfterRemoveErrorAbort(i, n) == n + 1

\* lines 50-54: the try statement is inside the loop, so after an OSError at
\* element i of a list of n the loop goes on with element i + 1
AfterRemoveError(i, n) == i + 1

\* lines 47-54: the loop of cleanup_files(file_list) from element i on, when
\* os.remove raises OSError on the files of errs; an element that is None or
\* names no existing file is skipped. The result is the disk afterwards and
\* the files os.remove was called on
RECURSIVE CleanupLoop(_, _, _, _, _)
CleanupLoop(d, file_list, errs, i, attempts) ==
    IF i > Len(file_list)
    THEN [disk |-> d, attempts |-> attempts]
    ELSE IF file_list[i] = "None" \/ file_list[i] \notin d
    THEN CleanupLoop(d, file_list, errs, i + 1, attempts)
    ELSE IF file_list[i] \in errs
    THEN CleanupLoop(d, file_list, errs, AfterRemoveError(i, Len(file_list)),
                     Append(attempts, file_list[i]))
    ELSE CleanupLoop(d \ {file_list[i]}, file_list, errs, i + 1,
                     Append(attempts, file_list[i]))

\* lines 47-54: what cleanup_files(file_list) leaves on disk
CleanupFiles(d, file_list, errs) == CleanupLoop(d, file_list, errs, 1, <<>>).disk

\* lines 47-54: the files cleanup_files(file_list) calls os.remove on
RemoveAttempts(d, file_list, errs) == CleanupLoop(d, file_list, errs, 1, <<>>).attempts

AfterJobFetchAgain == "fetch"

\* lines 266-267 and 303-305: "Fetch a single job from the queue. No loop.":
\* where the run goes on once process_video_job has returned
AfterJob == "stop"

\* lines 257-259: the finally clause of process_video_job
Finally ==
    /\ pc = "finally"
    /\ \E errs \in SUBSET (Range(files_to_clean) \cap disk) :
          /\ Cardinality(errs) <= MaxRemoveErrors
          /\ remove_attempts' = RemoveAttempts(disk, files_to_clean, errs)
          /\ remove_errors' = errs \cap Range(remove_attempts')
          /\ disk' = CleanupFiles(disk, files_to_clean, errs)
    /\ outcome' = IF outcome = "FAILED" THEN "FAILED" ELSE "SUCCEEDED"
    /\ events' = Append(events, "cleanup")
    /\ pc' = AfterJob
    /\ UNCHANGED <<env, fontExists, queue, mediaVars, stop_result, fnVars, raw_job,
                   jobVars>>

\* lines 61-86 and 303-306: stop_railway_deployment(), with any two responses
\* of the deployment service; an exception it raised would end the process
StopDeployment ==
    /\ pc = "stop"
    /\ \E r \in {StopRailwayDeployment(env, q, m) :
                    q \in QueryResponses, m \in PostOutcomes} :
          /\ stop_result' = Some(r)
          /\ pc' = IF r.raised THEN "crashed" ELSE "exit"
    /\ events' = Append(events, "stop")
    /\ UNCHANGED <<env, fontExists, queue, mediaVars, cleanupVars, fnVars, raw_job,
                   jobVars, disk, outcome>>

Next ==
    \/ ModuleInit
    \/ CreateDirectories
    \/ FetchJob
    \/ NormaliseJob
    \/ PvjEnter
    \/ DownloadBg
    \/ DownloadBgm
    \/ CheckDownloads
    \/ ProbeDimensions
    \/ ProbeVideoDuration
    \/ ProbeAudioDuration
    \/ CheckProps
    \/ CreateCaption
    \/ Plan
    \/ RunFfmpeg
    \/ Deliver
    \/ Except
    \/ Finally
    \/ StopDeployment

Spec == Init /\ [][Next]_vars

----------------------------------------------------------------------------
(* Functions applied on their own, to arguments drawn from bounded sets *)

\* the state of the run where no function has been applied yet
Idle ==
    /\ fontExists = TRUE
    /\ queue = <<>>
    /\ hasAudio = FALSE
    /\ isSilent = TRUE
    /\ remove_errors = {}
    /\ remove_attempts = <<>>
    /\ stop_result = None
    /\ raw_job = Null
    /\ job_data = Null
    /\ disk = {}
    /\ files_to_clean = <<>>
    /\ media_path = None
    /\ bgm_path = None
    /\ media_w = None
    /\ media_h = None
    /\ video_duration = None
    /\ audio_duration = None
    /\ caption_height = None
    /\ command = None
    /\ outcome = "NONE"
    /\ events = <<>>
    /\ ret = None

runVars == <<fontExists, queue, mediaVars, cleanupVars, stop_result, raw_job, jobVars,
             disk, outcome, events>>

\* stop_railway_deployment() in any environment, with any two responses
InitStop ==
    /\ pc = "stop_call"
    /\ env \in SUBSET EnvVars
    /\ arg \in {<<q, m>> : q \in QueryResponses, m \in PostOutcomes}
    /\ Idle

\* lines 61-86: the call of stop_railway_deployment()
StopCall ==
    /\ pc = "stop_call"
    /\ ret' = Some(StopRailwayDeployment(env, arg[1], arg[2]))
    /\ pc' = "stop_done"
    /\ UNCHANGED <<env, arg, runVars>>

SpecStop == InitStop /\ [][StopCall]_vars

\* the scaled height of a media of any width and height up to the bounds,
\* and of a 720x1280 clip
InitScale ==
    /\ pc = "scale_call"
    /\ env = EnvVars
    /\ arg \in {<<w, h>> : w \in 1..MaxScaleWidth, h \in 1..MaxScaleHeight}
                \cup {<<720, 1280>>}
    /\ Idle

\* lines 212-213: scaled_media_h of a media of width arg[1] and height arg[2]
ScaleCall ==
    /\ pc = "scale_call"
    /\ ret' = Some(ScaledMediaH(arg[1], arg[2]))
    /\ pc' = "scale_done"
    /\ UNCHANGED <<env, arg, runVars>>

SpecScale == InitScale /\ [][ScaleCall]_vars

\* the wrapping of any text up to the bounds
InitWrap ==
    /\ pc = "wrap_call"
    /\ env = EnvVars
    /\ arg \in UNION {[1..n -> Tokens] : n \in 0..MaxTokens}
    /\ IsText(arg)
    /\ Idle

\* lines 160-164: final_lines of the text arg
WrapCall ==
    /\ pc = "wrap_call"
    /\ ret' = Some(FinalLines(arg))
    /\ pc' = "wrap_done"
    /\ UNCHANGED <<env, arg, runVars>>

SpecWrap == InitWrap /\ [][WrapCall]_vars

----------------------------------------------------------------------------
(* Vocabulary of the claims *)

Occurs(e) == e \in Range(events)
Count(e) == Cardinality({i \in DOMAIN events : events[i] = e})

\* process_video_job was called and has returned
JobFinished == Occurs("call") /\ Occurs("cleanup") /\ pc \in {"stop", "exit"}

\* the run is over: the process has exited or has died of an uncaught exception
RunOver == pc \in {"exit", "crashed"}

\* the state of the job pipeline an operation belongs to:
\* 1 FETCHING, 2 ANALYZING, 3 RENDERING_CAPTION, 4 PLANNING, 5 ENCODING,
\* 6 DELIVERING, 7 CLEANUP, 0 for what is no operation of the job
Rank(e) ==
    CASE e \in {"download_bg", "download_bg!", "download_bgm", "download_bgm!",
                "bg_link!", "bgm_link!"} -> 1
      [] e \in {"probe_dims", "probe_dims!", "probe_vdur", "probe_vdur!",
                "probe_adur", "probe_adur!", "props!"} -> 2
      [] e \in {"caption", "caption!", "quote!", "font!"} -> 3
      [] e = "plan" -> 4
      [] e \in {"ffmpeg", "ffmpeg!"} -> 5
      [] e \in {"submit", "submit!"} -> 6
      [] e = "cleanup" -> 7
      [] OTHER -> 0

\* the operations that failed
Failures == {"download_bg!", "download_bgm!", "bg_link!", "bgm_link!",
             "probe_dims!", "probe_vdur!", "probe_adur!", "props!",
             "caption!", "quote!", "font!", "ffmpeg!"}

\* the operations of the job, success and failure of one operation together
Operations == {{"download_bg", "download_bg!"}, {"download_bgm", "download_bgm!"},
               {"probe_dims", "probe_dims!"}, {"probe_vdur", "probe_vdur!"},
               {"probe_adur", "probe_adur!"}, {"caption", "caption!"}, {"plan"},
               {"ffmpeg", "ffmpeg!"}, {"submit", "submit!"}, {"cleanup"}}

JobArtifacts == {"bg", "bgm", "caption", "output"}

----------------------------------------------------------------------------
(* Claims *)

\* C1: after process_video_job has finished, whatever the outcome, none of the
\* job's artifacts (background file, audio file, caption image, encoded
\* output) exists on disk. Stated for the runs in which no os.remove raised
\* an error, where the claim fails as well.
C1_NoArtifactAfterJob ==
    (JobFinished /\ remove_errors = {}) => disk \cap JobArtifacts = {}

C3_OutputDurationIsMin ==
    command # None =>
        LET c == Get(command)
            v == Get(video_duration)
            a == Get(audio_duration)
        IN  /\ c.t <= v /\ c.t <= a
            /\ c.t \in {v, a}
            /\ c.color_d = c.t

C3_Witness ==
    /\ command # None
    /\ Get(video_duration) > Get(audio_duration)
    /\ Get(command).t = Get(audio_duration)

\* C4: no per-job error crashes the process: for every non-empty payload
\* popped from the queue the run does not die of an uncaught exception, and
\* when it is over the deployment stop has been requested.
C4_NoJobErrorCrashes ==
    Truthy(raw_job) => (pc # "crashed" /\ (RunOver => Occurs("stop")))

\* C5: process_video_job is started only for a payload that is a single job
\* record or a list containing exactly one serialized job record.
C5_OnlyTwoShapesAccepted ==
    Occurs("call") =>
        \/ raw_job.kind = "dict"
        \/ /\ raw_job.kind = "list"
           /\ Len(raw_job.items) = 1
           /\ raw_job.items[1].kind = "str"
           /\ JsonLoads(raw_job.items[1]).ok
           /\ JsonLoads(raw_job.items[1]).val.kind = "dict"

\* C6: delivery is attempted only after the transform engine exited with
\* success, at most once, and neither a second delivery nor a second encode
\* follows it.
C6_DeliveryOnceAfterEncode ==
    \A j \in DOMAIN events :
        events[j] \in {"submit", "submit!"} =>
            /\ \E i \in 1..(j - 1) : events[i] = "ffmpeg"
            /\ ~Occurs("ffmpeg!")
            /\ \A k \in (j + 1)..Len(events) :
                  events[k] \notin {"submit", "submit!", "ffmpeg", "ffmpeg!"}

C6_Witness ==
    /\ pc = "exit"
    /\ Occurs("ffmpeg")
    /\ Occurs("submit!")

\* C7: after a failure in FETCHING, ANALYZING, RENDERING_CAPTION, PLANNING or
\* ENCODING no operation of a later state runs except CLEANUP; when the job
\* has finished CLEANUP has run once, after the failure, and the job is
\* FAILED; no operation runs twice.
C7_FailureAborts ==
    /\ \A i \in DOMAIN events :
          events[i] \in Failures =>
              /\ pc # "crashed"
              /\ \A j \in (i + 1)..Len(events) :
                    Rank(events[j]) \in {0, Rank(events[i]), 7}
              /\ pc \in {"stop", "exit"} =>
                    /\ outcome = "FAILED"
                    /\ Count("cleanup") = 1
                    /\ \E j \in (i + 1)..Len(events) : events[j] = "cleanup"
    /\ \A op \in Operations :
          Cardinality({i \in DOMAIN events : events[i] \in op}) <= 1

C7_Witness ==
    /\ pc = "exit"
    /\ Occurs("download_bg!")
    /\ Occurs("download_bgm")
    /\ outcome = "FAILED"

\* C8: every job handed to process_video_job reaches CLEANUP exactly once
\* before the job is over, and CLEANUP happens before the deployment stop is
\* requested.
C8_CleanupBeforeTerminal ==
    (Occurs("call") /\ pc \in {"stop", "exit", "crashed"}) => Count("cleanup") = 1

\* C9: if the transform engine invocation fails, then after the job has
\* finished the background file, the audio file and the caption image are
\* absent and no encoded output file exists. Stated for the runs in which no
\* os.remove raised an error, where the claim fails as well.
C9_NothingLeftAfterEncodeFailure ==
    (Occurs("ffmpeg!") /\ JobFinished /\ remove_errors = {}) =>
        disk \cap JobArtifacts = {}

\* C10: when the font file is absent the run aborts at startup: no job is
\* popped from the queue and no download is performed.
C10_MissingFontAbortsAtStartup ==
    ~fontExists =>
        /\ ~Occurs("pop")
        /\ ~Occurs("download_bg") /\ ~Occurs("download_bg!")
        /\ ~Occurs("download_bgm") /\ ~Occurs("download_bgm!")

\* C11: stop_railway_deployment raises no exception for any response of the
\* deployment service; when credentials are missing it sends nothing, and
\* when the service reports no active deployment (no edges) it sends no stop
\* command.
C11_StopNeverFatal ==
    pc = "stop_done" =>
        LET r == Get(ret)
            b == arg[1].body
            noDeployment ==
                /\ arg[1].http = "ok" /\ b.json /\ b.top = "dict"
                /\ \A i \in DOMAIN b.chain : b.chain[i] = "dict"
                /\ Len(b.chain) < 3 \/ b.edges \in {"absent", "null", "empty"}
        IN  /\ ~r.raised
            /\ CredentialsMissing(env) => (~r.queried /\ ~r.sent)
            /\ noDeployment => ~r.sent

C11_Witness ==
    /\ pc = "stop_done"
    /\ ~CredentialsMissing(env)
    /\ arg[1].http = "ok"
    /\ arg[1].body.chain = <<"dict", "dict", "dict">>
    /\ arg[1].body.edges = "empty"
    /\ Get(ret) = [queried |-> TRUE, sent |-> FALSE, raised |-> FALSE]

\* C19: cleanup_files is not aborted by a deletion error: a listed file that
\* is still on disk after CLEANUP is one whose own removal raised the error,
\* so os.remove was called on every listed file, also on those listed after
\* a file whose removal failed.
C19_CleanupGoesOn ==
    Occurs("cleanup") =>
        \A f \in Range(files_to_clean) \ {"None"} :
            /\ f \in disk => f \in remove_errors
            /\ f \in Range(remove_attempts)

C19_Witness ==
    /\ Occurs("cleanup")
    /\ remove_errors = {"bg"}
    /\ remove_attempts = <<"bg", "bgm", "caption">>
    /\ disk = {"bg"}

\* the passes a probe step can run over a file, failed ones included
ProbeEvents == {"probe_dims", "probe_dims!", "probe_vdur", "probe_vdur!",
                "probe_adur", "probe_adur!", "audio_streams", "audio_streams!",
                "silencedetect", "silencedetect!"}

IsProbeEvent(e) == e \in ProbeEvents

C13_FailedDownloadLeavesNoFile ==
    /\ Occurs("download_bg!") => "bg" \notin disk
    /\ Occurs("download_bgm!") => "bgm" \notin disk
    /\ (Occurs("download_bg!") \/ Occurs("download_bgm!")) =>
           (~Occurs("ffmpeg") /\ ~Occurs("ffmpeg!"))

\* the input a stream reference of command c names, "" for a label or for an
\* index no input has
InputNamed(c, r) ==
    IF r.label = "" /\ r.input + 1 \in DOMAIN c.inputs THEN c.inputs[r.input + 1] ELSE ""

\* the graph parts of command c that produce label l
Producers(c, l) == {i \in DOMAIN c.filter_parts : c.filter_parts[i].out = l}

\* C14: in every command built, the inputs are opened in the order colour
\* layer, background media, caption image, fallback audio; every stream a
\* graph part consumes is an input index below the number of inputs or a
\* label produced by an earlier part; every label is produced exactly once;
\* the video is composed base <- media <- caption; and final_v and final_a
\* are the only mapped outputs.
C14_GraphAgreesWithInputs ==
    command # None =>
        LET c == Get(command)
            fp == c.filter_parts
            n == Len(c.inputs)
        IN  /\ c.inputs = <<"color", "bg", "caption", "bgm">>
            /\ \A i \in DOMAIN fp : \A k \in DOMAIN fp[i].ins :
                  LET r == fp[i].ins[k]
                  IN  IF r.label = ""
                      THEN r.input \in 0 .. (n - 1)
                      ELSE \E j \in 1 .. (i - 1) : fp[j].out = r.label
            /\ \A i, j \in DOMAIN fp : fp[i].out = fp[j].out => i = j
            /\ \E s, m, t \in DOMAIN fp :
                  /\ fp[s].op = "scale"
                  /\ Len(fp[s].ins) = 1
                  /\ InputNamed(c, fp[s].ins[1]) = "bg" /\ fp[s].ins[1].typ = "v"
                  /\ fp[m].op = "overlay"
                  /\ InputNamed(c, fp[m].ins[1]) = "color" /\ fp[m].ins[1].typ = "v"
                  /\ fp[m].ins[2] = LabelRef(fp[s].out)
                  /\ fp[t].op = "overlay"
                  /\ fp[t].ins[1] = LabelRef(fp[m].out)
                  /\ InputNamed(c, fp[t].ins[2]) = "caption" /\ fp[t].ins[2].typ = "v"
                  /\ fp[t].out = "final_v"
            /\ c.maps = <<"final_v", "final_a">>
            /\ \A k \in DOMAIN c.maps : Cardinality(Producers(c, c.maps[k])) = 1

C14_Witness ==
    /\ command # None
    /\ Occurs("ffmpeg")
    /\ Len(Get(command).filter_parts) = 4
    /\ Len(Get(command).inputs) = 4

\* the vertical position (doubled) at which command c overlays the stream r
OverlayAt2(c, r) ==
    LET i == CHOOSE k \in DOMAIN c.filter_parts :
                 c.filter_parts[k].op = "overlay" /\ c.filter_parts[k].ins[2] = r
    IN  c.filter_parts[i].at2

\* C16: in every command built, the media is overlaid at
\* mediaY = 1920/2 - scaledMediaHeight/2 + 100 and the caption at
\* captionY = mediaY - captionHeight + 1, so the caption's bottom edge
\* captionY + captionHeight is one pixel below the media's top edge mediaY
\* (all positions doubled, since mediaY may be a half).
C16_CaptionOverlapsByOnePixel ==
    command # None =>
        LET c == Get(command)
            scaled == ScaledMediaH(Get(media_w), Get(media_h))
            mediaY2 == OverlayAt2(c, LabelRef("scaled_media"))
            captionY2 == OverlayAt2(c, InRef(2, "v"))
        IN  /\ mediaY2 = 1920 - scaled + 2 * 100
            /\ captionY2 = mediaY2 - 2 * Get(caption_height) + 2
            /\ captionY2 + 2 * Get(caption_height) = mediaY2 + 2 * 1

C16_Witness ==
    /\ command # None
    /\ Get(caption_height) = 2 * CAPTION_V_PADDING + 1
    /\ ScaledMediaH(Get(media_w), Get(media_h)) = 1080
    /\ OverlayAt2(Get(command), LabelRef("scaled_media")) = 1040
    /\ OverlayAt2(Get(command), InRef(2, "v")) = 892

\* C15: for all positive widths and heights the scaled media height is
\* floor(mediaHeight * 1080 / mediaWidth), and for a 720x1280 clip it is 1920.
C15_ScaledHeightIsFloor ==
    pc = "scale_done" =>
        /\ Get(ret) = (arg[2] * 1080) \div arg[1]
        /\ arg = <<720, 1280>> => Get(ret) = 1920

\* C17: planning never runs on unusable probe results: whenever the scale
\* factor is computed or a command exists, width, height and both durations
\* have resolved and the width is positive, and the scale computation never
\* divides by zero.
C17_PlanningOnUsableProbeOnly ==
    /\ ~Occurs("plan!")
    /\ (Occurs("plan") \/ command # None \/ Occurs("ffmpeg") \/ Occurs("ffmpeg!")) =>
          /\ media_w # None /\ media_h # None
          /\ video_duration # None /\ audio_duration # None
          /\ Get(media_w) > 0

\* C18: one run handles at most one job: the queue is asked for a job at most
\* once, process_video_job is started at most once, ffmpeg is invoked at most
\* once, and no step of the run adds an element to the queue (the queue
\* after a step is a prefix of the queue before it).
C18_AtMostOneJobPerRun ==
    /\ [](/\ Count("pop") + Count("pop_empty") + Count("pop!") <= 1
          /\ Count("call") <= 1
          /\ Count("ffmpeg") + Count("ffmpeg!") <= 1)
    /\ [][/\ Len(queue') <= Len(queue)
          /\ queue' = SubSeq(queue, 1, Len(queue'))]_vars

C18_Witness ==
    /\ RunOver
    /\ Count("pop") = 1
    /\ Count("call") = 1
    /\ Count("ffmpeg") = 1
    /\ Len(queue) = 1

\* the output lines that come from input line i
LinesFrom(out, i) == {k \in DOMAIN out : out[k].src = i}

\* an input line that is empty or holds whitespace only
IsBlank(line) == \A j \in DOMAIN line : line[j].ws

\* the chunks an output holds, in order, each by input line and place in it
RECURSIVE Places(_)
Places(out) ==
    IF out = <<>> THEN <<>>
    ELSE [j \in DOMAIN out[1].line |-> <<out[1].src, out[1].line[j].idx>>]
         \o Places(Tail(out))

====
